---- MODULE Spec2Model ----
(***************************************************************************)
(* Model of assignment3.py: a web-log analyser.  main() downloads a CSV    *)
(* text, parses it into records (read_csv), counts the image requests      *)
(* (count_images), derives their percentage (find_image_percentage) and    *)
(* finds the most used browser (find_most_used_browser).                   *)
(*                                                                         *)
(* Strings are sequences of one-character strings, so that parsing and     *)
(* pattern matching are computed character by character.                   *)
(***************************************************************************)
EXTENDS Integers, Sequences, FiniteSets, TLC

VARIABLES
    pc,               \* position of main(): the statement about to run
    weblog_data,      \* the downloaded text
    records,          \* list of dicts built by read_csv
    idx,              \* position of the running for-loop over records (1-based)
    image_count,      \* count_images' counter / main's image_count
    total_rows,       \* main's total_rows
    image_percentage, \* main's image_percentage, None or <<numerator, denominator>>
    browser_counts,   \* find_most_used_browser's tally dict
    browser_count,    \* main's browser_count (the returned identifier) or None
    err,              \* the uncaught exception that ended the run, or "none"
    exit_code,        \* the process exit status, -1 while running
    downloads,        \* history: number of calls of download_data
    download_failed,  \* history: TRUE once download_data has raised
    calls,            \* history: the analysis functions entered so far
    printed           \* history: TRUE once the three result lines are printed

vars == <<pc, weblog_data, records, idx, image_count, total_rows, image_percentage,
          browser_counts, browser_count, err, exit_code, downloads, download_failed,
          calls, printed>>

\* ---------------------------------------------------------------- bounds

MaxTextLen == 6
MaxRecords == 2
MaxLines == 2

\* ---------------------------------------------------------------- strings

None == <<>>

RECURSIVE Concat(_)
Concat(ss) == IF ss = <<>> THEN <<>> ELSE Head(ss) \o Concat(Tail(ss))

RECURSIVE Join(_, _)
Join(sep, ss) ==
    IF ss = <<>> THEN <<>>
    ELSE IF Len(ss) = 1 THEN ss[1]
    ELSE ss[1] \o sep \o Join(sep, Tail(ss))

SeqsUpTo(S, n) == UNION {[1..k -> S] : k \in 0..n}

Min(a, b) == IF a < b THEN a ELSE b

\* str.lower() on the characters the model uses: what re.IGNORECASE compares
Fold(c) ==
    CASE c = "J" -> "j" [] c = "P" -> "p" [] c = "G" -> "g"
      [] c = "I" -> "i" [] c = "F" -> "f" [] c = "N" -> "n"
      [] OTHER -> c

\* ---------------------------------------------------------------- csv.reader

EOL == "EOL"
delimiter == ","
quotechar == "\""

parse_reset == [state |-> "START_RECORD", field |-> <<>>, fields |-> <<>>, error |-> FALSE]

parse_save_field(ps) == [ps EXCEPT !.fields = Append(@, ps.field), !.field = <<>>]

parse_add_char(ps, c) == [ps EXCEPT !.field = Append(@, c)]

\* One character through the reader's state machine (excel dialect: doublequote,
\* no escapechar, no skipinitialspace, not strict).
parse_process_char(ps, c) ==
    LET nl == c \in {"\n", "\r"}
        endField == [parse_save_field(ps) EXCEPT
                        !.state = IF c = EOL THEN "START_RECORD" ELSE "EAT_CRNL"]
    IN
    CASE ps.state = "START_RECORD" /\ c = EOL -> ps
      [] ps.state = "START_RECORD" /\ nl -> [ps EXCEPT !.state = "EAT_CRNL"]
      [] ps.state \in {"START_RECORD", "START_FIELD"} /\ ~(ps.state = "START_RECORD" /\ (nl \/ c = EOL)) ->
            IF nl \/ c = EOL THEN endField
            ELSE IF c = quotechar THEN [ps EXCEPT !.state = "IN_QUOTED_FIELD"]
            ELSE IF c = delimiter THEN [parse_save_field(ps) EXCEPT !.state = "START_FIELD"]
            ELSE [parse_add_char(ps, c) EXCEPT !.state = "IN_FIELD"]
      [] ps.state = "IN_FIELD" ->
            IF nl \/ c = EOL THEN endField
            ELSE IF c = delimiter THEN [parse_save_field(ps) EXCEPT !.state = "START_FIELD"]
            ELSE parse_add_char(ps, c)
      [] ps.state = "IN_QUOTED_FIELD" ->
            IF c = EOL THEN ps
            ELSE IF c = quotechar THEN [ps EXCEPT !.state = "QUOTE_IN_QUOTED_FIELD"]
            ELSE parse_add_char(ps, c)
      [] ps.state = "QUOTE_IN_QUOTED_FIELD" ->
            IF c = quotechar THEN [parse_add_char(ps, c) EXCEPT !.state = "IN_QUOTED_FIELD"]
            ELSE IF c = delimiter THEN [parse_save_field(ps) EXCEPT !.state = "START_FIELD"]
            ELSE IF nl \/ c = EOL THEN endField
            ELSE [parse_add_char(ps, c) EXCEPT !.state = "IN_FIELD"]
      [] ps.state = "EAT_CRNL" ->
            IF nl THEN ps
            ELSE IF c = EOL THEN [ps EXCEPT !.state = "START_RECORD"]
            ELSE [ps EXCEPT !.error = TRUE]

\* The reader over the lines of io.StringIO(text): a line ends with "\n" or with
\* the text; a row is complete when the end of a line leaves START_RECORD, and
\* the end of the input closes a quoted field left open.
RECURSIVE Reader_iternext(_, _, _, _)
Reader_iternext(text, i, ps, rows) ==
    IF i > Len(text)
    THEN [error |-> FALSE,
          rows  |-> IF ps.state = "IN_QUOTED_FIELD" \/ ps.field # <<>>
                    THEN Append(rows, parse_save_field(ps).fields)
                    ELSE rows]
    ELSE LET c == text[i]
             endOfLine == c = "\n" \/ i = Len(text)
             p1 == parse_process_char(ps, c)
             p2 == IF endOfLine /\ ~p1.error THEN parse_process_char(p1, EOL) ELSE p1
         IN  IF p2.error THEN [error |-> TRUE, rows |-> rows]
             ELSE IF endOfLine /\ p2.state = "START_RECORD"
                  THEN Reader_iternext(text, i + 1, parse_reset, Append(rows, p2.fields))
                  ELSE Reader_iternext(text, i + 1, p2, rows)

csv_reader(text) == Reader_iternext(text, 1, parse_reset, <<>>)

\* ---------------------------------------------------------------- read_csv

column_names == <<"path", "datetime_accessed", "browser", "request", "size">>

\* dict_zip that fills the names left over with an empty string
dict_zip_longest(names, row) ==
    [k \in {names[j] : j \in 1..Len(names)} |->
        LET j == CHOOSE j \in 1..Len(names) : names[j] = k
        IN  IF j <= Len(row) THEN row[j] ELSE <<>>]

\* dict(zip(names, row)): pairs by position, stopping at the shorter
dict_zip(names, row) ==
    LET n == Min(Len(names), Len(row))
    IN  [k \in {names[j] : j \in 1..n} |->
            row[CHOOSE j \in 1..n : names[j] = k /\ \A j2 \in (j + 1)..n : names[j2] # k]]

read_csv(text) ==
    LET r == csv_reader(text)
    IN  [error |-> r.error,
         records |-> [i \in 1..Len(r.rows) |-> dict_zip(column_names, r.rows[i])]]

\* ---------------------------------------------------------------- count_images

image_extensions == << <<"j", "p", "g">>, <<"g", "i", "f">>, <<"p", "n", "g">> >>

\* the literal tok matches s from position p on, ignoring case
MatchesAtIgnoreCase(tok, s, p) ==
    /\ p + Len(tok) - 1 <= Len(s)
    /\ \A k \in 1..Len(tok) : Fold(s[p + k - 1]) = Fold(tok[k])

\* "$" before position q: at the end of the string, or just before a newline
\* that is the last character of the string
AtDollar(s, q) == q = Len(s) + 1 \/ (q = Len(s) /\ s[q] = "\n")

\* re.search(r'\.(jpg|gif|png)$', s, re.IGNORECASE) is not None
image_search(s) ==
    \E p \in 1..Len(s) :
        /\ s[p] = "."
        /\ \E e \in 1..Len(image_extensions) :
              /\ MatchesAtIgnoreCase(image_extensions[e], s, p + 1)
              /\ AtDollar(s, p + 1 + Len(image_extensions[e]))

\* ---------------------------------------------------------------- find_most_used_browser

Firefox == <<"F", "i", "r", "e", "f", "o", "x">>
Chrome == <<"C", "h", "r", "o", "m", "e">>
InternetExplorer == <<"I", "n", "t", "e", "r", "n", "e", "t", " ",
                      "E", "x", "p", "l", "o", "r", "e", "r">>
Safari == <<"S", "a", "f", "a", "r", "i">>

browser_types == <<Firefox, Chrome, InternetExplorer, Safari>>

\* the literal tok matches s from position p on
MatchesAt(tok, s, p) ==
    /\ p + Len(tok) - 1 <= Len(s)
    /\ \A k \in 1..Len(tok) : s[p + k - 1] = tok[k]

\* the alternatives of the pattern that match at position p, as list indices
AlternativesAt(s, p) == {k \in 1..Len(browser_types) : MatchesAt(browser_types[k], s, p)}

SetMin(S) == CHOOSE x \in S : \A y \in S : x <= y

\* the identifiers of the list that occur somewhere in s, as list indices
RecognizedIn(s) ==
    {k \in 1..Len(browser_types) : \E p \in 1..Len(s) : MatchesAt(browser_types[k], s, p)}

\* browser_search with the list order deciding before the position in the text
browser_search_list_first(s) ==
    IF RecognizedIn(s) = {} THEN None ELSE browser_types[SetMin(RecognizedIn(s))]

\* re.search(r'(Firefox|Chrome|Internet Explorer|Safari)', s): the scan tries
\* each start position from the left and, at a position, the alternatives in
\* list order; the result is group(1) of the first success, or None
browser_search(s) ==
    LET starts == {p \in 1..Len(s) : AlternativesAt(s, p) # {}}
    IN  IF starts = {} THEN None
        ELSE browser_types[SetMin(AlternativesAt(s, SetMin(starts)))]

\* browser_counts after lines 82-83
zero_counts == [b \in {browser_types[k] : k \in 1..Len(browser_types)} |-> 0]

\* max_by with the running best replaced by an equal value too
RECURSIVE max_by_last(_, _, _, _)
max_by_last(keys, counts, k, best) ==
    IF k > Len(keys) THEN best
    ELSE max_by_last(keys, counts, k + 1,
                     IF counts[keys[k]] >= counts[best] THEN keys[k] ELSE best)

\* max(keys, key=counts.get) over the keys in insertion order: the running
\* best is replaced only by a strictly greater value
RECURSIVE max_by(_, _, _, _)
max_by(keys, counts, k, best) ==
    IF k > Len(keys) THEN best
    ELSE max_by(keys, counts, k + 1,
                IF counts[keys[k]] > counts[best] THEN keys[k] ELSE best)

most_popular(counts) == max_by(browser_types, counts, 2, browser_types[1])

\* ---------------------------------------------------------------- inputs

EmptyDict == [k \in {} |-> None]

\* what the remote location may serve: log lines cut after 0, 1, 3 or 5 fields
LogPaths == { <<"a", ".", "P", "N", "G">>, <<"i">> }
LogBrowsers == { Chrome, Safari \o <<" ">> \o Firefox, <<"x">> }
LogRow(p, b) == <<p, <<"t">>, b, <<"r">>, <<"1">> >>
FieldCounts == {0, 1, 3, 5}
LogLines ==
    {Join(<<delimiter>>, SubSeq(LogRow(p, b), 1, n)) :
        p \in LogPaths, b \in LogBrowsers, n \in FieldCounts}
LogTexts ==
    {Concat([i \in 1..Len(ls) |-> ls[i] \o <<"\n">>]) : ls \in SeqsUpTo(LogLines, MaxLines)}

\* every text over the characters that matter to the CSV reader
CsvChars == {"a", ",", "\n", "\"", "\r"}
CsvTexts == SeqsUpTo(CsvChars, MaxTextLen)

\* paths: stem, optional dot, extension, tail
PathDots == { <<".">>, <<>> }
PathExts == { <<"j", "p", "g">>, <<"J", "P", "G">>, <<"g", "i", "f">>,
              <<"P", "n", "g">>, <<"t", "x", "t">> }
PathTails == { <<>>, <<"x">>, <<"\n">>, <<"/", "b">> }
ImagePaths == {<<"a">> \o d \o e \o t : d \in PathDots, e \in PathExts, t \in PathTails}
ImageRecords == {[path |-> p] : p \in ImagePaths} \cup {EmptyDict}

\* browser fields: two tokens, each an identifier or not
BrowserTokens == {Firefox, Chrome, InternetExplorer, Safari, <<"f", "o", "x">>}
BrowserFields == {a \o <<" ">> \o b : a \in BrowserTokens, b \in BrowserTokens}
BrowserRecords == {[browser |-> b] : b \in BrowserFields} \cup {EmptyDict}

\* ---------------------------------------------------------------- main

Fresh ==
    /\ weblog_data = <<>>
    /\ records = <<>>
    /\ idx = 0
    /\ image_count = 0
    /\ total_rows = 0
    /\ image_percentage = None
    /\ browser_counts = EmptyDict
    /\ browser_count = None
    /\ err = "none"
    /\ exit_code = -1
    /\ downloads = 0
    /\ download_failed = FALSE
    /\ calls = {}
    /\ printed = FALSE

Raise(e) ==
    /\ pc' = "raised"
    /\ err' = e
    /\ exit_code' = 1

\* lines 114-117: the download succeeds
DownloadOk ==
    /\ pc = "download"
    /\ downloads' = downloads + 1
    /\ \E text \in LogTexts : weblog_data' = text
    /\ pc' = "read_csv"
    /\ UNCHANGED <<records, idx, image_count, total_rows, image_percentage,
                   browser_counts, browser_count, err, exit_code, download_failed,
                   calls, printed>>

\* DownloadFail with the handler printing the error and trying once more
DownloadFailRetry ==
    /\ pc = "download"
    /\ downloads' = downloads + 1
    /\ download_failed' = TRUE
    /\ pc' = IF downloads = 0 THEN "download" ELSE "exit"
    /\ exit_code' = IF downloads = 0 THEN exit_code ELSE 1
    /\ UNCHANGED <<weblog_data, records, idx, image_count, total_rows, image_percentage,
                   browser_counts, browser_count, err, calls, printed>>

\* lines 114-120: the download raises, the handler prints and exits with 1
DownloadFail ==
    /\ pc = "download"
    /\ downloads' = downloads + 1
    /\ download_failed' = TRUE
    /\ pc' = "exit"
    /\ exit_code' = 1
    /\ UNCHANGED <<weblog_data, records, idx, image_count, total_rows, image_percentage,
                   browser_counts, browser_count, err, calls, printed>>

\* line 122
ReadCsv ==
    /\ pc = "read_csv"
    /\ calls' = calls \cup {"read_csv"}
    /\ LET r == read_csv(weblog_data)
       IN  IF r.error
           THEN Raise("csv.Error") /\ UNCHANGED records
           ELSE records' = r.records /\ pc' = "count_images" /\ UNCHANGED <<err, exit_code>>
    /\ UNCHANGED <<weblog_data, idx, image_count, total_rows, image_percentage,
                   browser_counts, browser_count, downloads, download_failed, printed>>

\* line 123, entering count_images: lines 50-52
CountImagesCall ==
    /\ pc = "count_images"
    /\ calls' = calls \cup {"count_images"}
    /\ image_count' = 0
    /\ idx' = 1
    /\ pc' = "count_loop"
    /\ UNCHANGED <<weblog_data, records, total_rows, image_percentage,
                   browser_counts, browser_count, err, exit_code, downloads, download_failed, printed>>

\* lines 54-56: one iteration of the loop
CountImagesIter ==
    /\ pc = "count_loop"
    /\ idx <= Len(records)
    /\ IF "path" \notin DOMAIN records[idx]
       THEN Raise("KeyError") /\ UNCHANGED <<idx, image_count>>
       ELSE /\ image_count' = IF image_search(records[idx]["path"])
                              THEN image_count + 1 ELSE image_count
            /\ idx' = idx + 1
            /\ UNCHANGED <<pc, err, exit_code>>
    /\ UNCHANGED <<weblog_data, records, total_rows, image_percentage,
                   browser_counts, browser_count, downloads, download_failed, calls, printed>>

\* line 58: the loop is over, count_images returns to line 123
CountImagesReturn ==
    /\ pc = "count_loop"
    /\ idx > Len(records)
    /\ pc' = "find_image_percentage"
    /\ UNCHANGED <<weblog_data, records, idx, image_count, total_rows, image_percentage,
                   browser_counts, browser_count, err, exit_code, downloads, download_failed, calls, printed>>

\* lines 124-125 and 66-67: the quotient is kept as <<numerator, denominator>>
FindImagePercentage ==
    /\ pc = "find_image_percentage"
    /\ total_rows' = Len(records)
    /\ calls' = calls \cup {"find_image_percentage"}
    /\ IF Len(records) = 0
       THEN Raise("ZeroDivisionError") /\ UNCHANGED image_percentage
       ELSE /\ image_percentage' = <<image_count * 100, Len(records)>>
            /\ pc' = "find_most_used_browser"
            /\ UNCHANGED <<err, exit_code>>
    /\ UNCHANGED <<weblog_data, records, idx, image_count,
                   browser_counts, browser_count, downloads, download_failed, printed>>

\* line 126, entering find_most_used_browser: lines 78-83
FindMostUsedBrowserCall ==
    /\ pc = "find_most_used_browser"
    /\ calls' = calls \cup {"find_most_used_browser"}
    /\ browser_counts' = zero_counts
    /\ idx' = 1
    /\ pc' = "browser_loop"
    /\ UNCHANGED <<weblog_data, records, image_count, total_rows, image_percentage,
                   browser_count, err, exit_code, downloads, download_failed, printed>>

\* FindMostUsedBrowserIter counting every identifier the field contains
FindMostUsedBrowserIterAll ==
    /\ pc = "browser_loop"
    /\ idx <= Len(records)
    /\ IF "browser" \notin DOMAIN records[idx]
       THEN Raise("KeyError") /\ UNCHANGED <<idx, browser_counts>>
       ELSE /\ browser_counts' =
                  [b \in DOMAIN browser_counts |->
                      IF \E k \in RecognizedIn(records[idx]["browser"]) : browser_types[k] = b
                      THEN browser_counts[b] + 1 ELSE browser_counts[b]]
            /\ idx' = idx + 1
            /\ UNCHANGED <<pc, err, exit_code>>
    /\ UNCHANGED <<weblog_data, records, image_count, total_rows, image_percentage,
                   browser_count, downloads, download_failed, calls, printed>>

\* FindMostUsedBrowserIter reading the request column instead of the browser column
FindMostUsedBrowserIterRequest ==
    /\ pc = "browser_loop"
    /\ idx <= Len(records)
    /\ IF "request" \notin DOMAIN records[idx]
       THEN Raise("KeyError") /\ UNCHANGED <<idx, browser_counts>>
       ELSE /\ LET found_browser == browser_search(records[idx]["request"])
               IN  browser_counts' =
                      IF found_browser # None
                      THEN [browser_counts EXCEPT ![found_browser] = @ + 1]
                      ELSE browser_counts
            /\ idx' = idx + 1
            /\ UNCHANGED <<pc, err, exit_code>>
    /\ UNCHANGED <<weblog_data, records, image_count, total_rows, image_percentage,
                   browser_count, downloads, download_failed, calls, printed>>

\* lines 85-89: one iteration of the loop
FindMostUsedBrowserIter ==
    /\ pc = "browser_loop"
    /\ idx <= Len(records)
    /\ IF "browser" \notin DOMAIN records[idx]
       THEN Raise("KeyError") /\ UNCHANGED <<idx, browser_counts>>
       ELSE /\ LET found_browser == browser_search(records[idx]["browser"])
               IN  browser_counts' =
                      IF found_browser # None
                      THEN [browser_counts EXCEPT ![found_browser] = @ + 1]
                      ELSE browser_counts
            /\ idx' = idx + 1
            /\ UNCHANGED <<pc, err, exit_code>>
    /\ UNCHANGED <<weblog_data, records, image_count, total_rows, image_percentage,
                   browser_count, downloads, download_failed, calls, printed>>

\* lines 91-92: the loop is over, the maximum is returned to line 126
FindMostUsedBrowserReturn ==
    /\ pc = "browser_loop"
    /\ idx > Len(records)
    /\ browser_count' = most_popular(browser_counts)
    /\ pc' = "print"
    /\ UNCHANGED <<weblog_data, records, idx, image_count, total_rows, image_percentage,
                   browser_counts, err, exit_code, downloads, download_failed, calls, printed>>

\* lines 128-130
Report ==
    /\ pc = "print"
    /\ printed' = TRUE
    /\ pc' = "done"
    /\ exit_code' = 0
    /\ UNCHANGED <<weblog_data, records, idx, image_count, total_rows, image_percentage,
                   browser_counts, browser_count, err, downloads, download_failed, calls>>

\* ---------------------------------------------------------------- specifications

\* the whole program
Init == pc = "download" /\ Fresh

Next ==
    \/ DownloadOk
    \/ DownloadFail
    \/ ReadCsv
    \/ CountImagesCall
    \/ CountImagesIter
    \/ CountImagesReturn
    \/ FindImagePercentage
    \/ FindMostUsedBrowserCall
    \/ FindMostUsedBrowserIter
    \/ FindMostUsedBrowserReturn
    \/ Report

Spec == Init /\ [][Next]_vars

\* read_csv on any text
InitParse ==
    /\ pc = "read_csv"
    /\ weblog_data \in CsvTexts
    /\ records = <<>>
    /\ idx = 0
    /\ image_count = 0
    /\ total_rows = 0
    /\ image_percentage = None
    /\ browser_counts = EmptyDict
    /\ browser_count = None
    /\ err = "none"
    /\ exit_code = -1
    /\ downloads = 0
    /\ download_failed = FALSE
    /\ calls = {}
    /\ printed = FALSE

NextParse == ReadCsv

SpecParse == InitParse /\ [][NextParse]_vars

\* count_images on any list of records
InitImages ==
    /\ pc = "count_images"
    /\ weblog_data = <<>>
    /\ records \in SeqsUpTo(ImageRecords, MaxRecords)
    /\ idx = 0
    /\ image_count = 0
    /\ total_rows = 0
    /\ image_percentage = None
    /\ browser_counts = EmptyDict
    /\ browser_count = None
    /\ err = "none"
    /\ exit_code = -1
    /\ downloads = 0
    /\ download_failed = FALSE
    /\ calls = {}
    /\ printed = FALSE

NextImages ==
    \/ CountImagesCall
    \/ CountImagesIter
    \/ CountImagesReturn

SpecImages == InitImages /\ [][NextImages]_vars

\* find_most_used_browser on any list of records
InitBrowser ==
    /\ pc = "find_most_used_browser"
    /\ weblog_data = <<>>
    /\ records \in SeqsUpTo(BrowserRecords, MaxRecords)
    /\ idx = 0
    /\ image_count = 0
    /\ total_rows = 0
    /\ image_percentage = None
    /\ browser_counts = EmptyDict
    /\ browser_count = None
    /\ err = "none"
    /\ exit_code = -1
    /\ downloads = 0
    /\ download_failed = FALSE
    /\ calls = {}
    /\ printed = FALSE

NextBrowser ==
    \/ FindMostUsedBrowserCall
    \/ FindMostUsedBrowserIter
    \/ FindMostUsedBrowserReturn

SpecBrowser == InitBrowser /\ [][NextBrowser]_vars

\* ---------------------------------------------------------------- find_most_used_browser: claims

BrowserNames == {browser_types[k] : k \in 1..Len(browser_types)}

ListIndex(b) == CHOOSE k \in 1..Len(browser_types) : browser_types[k] = b

\* position of the first occurrence of identifier k in s
FirstOccurrence(s, k) == SetMin({p \in 1..Len(s) : MatchesAt(browser_types[k], s, p)})

\* the recognized identifier that comes first in the list
EarliestInList(s) == browser_types[SetMin(RecognizedIn(s))]

\* the recognized identifier whose first occurrence starts leftmost in the text
LeftmostInText(s) ==
    browser_types[CHOOSE k \in RecognizedIn(s) :
                     \A k2 \in RecognizedIn(s) : FirstOccurrence(s, k) <= FirstOccurrence(s, k2)]

Increment(counts, b) == [counts EXCEPT ![b] = @ + 1]

\* an iteration of the loop of find_most_used_browser has just run on records[idx]
BrowserIterated == pc = "browser_loop" /\ pc' = "browser_loop" /\ idx' = idx + 1

RECURSIVE SumOver(_, _)
SumOver(counts, keys) ==
    IF keys = {} THEN 0
    ELSE LET b == CHOOSE x \in keys : TRUE IN counts[b] + SumOver(counts, keys \ {b})

\* C1 as stated: for a record whose browser field contains two or more
\* identifiers, the iteration increments the tally of the identifier that is
\* earliest in the list, wherever the identifiers stand in the text.
C1_EarliestInListWins ==
    [][(BrowserIterated /\ Cardinality(RecognizedIn(records[idx]["browser"])) >= 2)
         => browser_counts' = Increment(browser_counts, EarliestInList(records[idx]["browser"]))]_vars

\* C1 amended: for a record whose browser field contains two or more
\* identifiers, the iteration increments the tally of the identifier whose
\* first occurrence starts leftmost in the text, whatever its place in the list.
C1_LeftmostInTextWins ==
    [][(BrowserIterated /\ Cardinality(RecognizedIn(records[idx]["browser"])) >= 2)
         => browser_counts' = Increment(browser_counts, LeftmostInText(records[idx]["browser"]))]_vars

\* a field "Safari Chrome" has been counted: Safari is leftmost, Chrome is earlier in the list
C1_Witness ==
    /\ pc = "browser_loop"
    /\ idx = 2
    /\ records[1]["browser"] = Safari \o <<" ">> \o Chrome
    /\ browser_counts[Safari] = 1
    /\ browser_counts[Chrome] = 0

\* C2: the identifier returned has the maximum tally, no identifier before it
\* in the list has that tally, and with all tallies zero it is Firefox.
C2_MaxFirstInList ==
    pc = "print" =>
        /\ browser_count \in BrowserNames
        /\ \A b \in BrowserNames : browser_counts[b] <= browser_counts[browser_count]
        /\ \A b \in BrowserNames :
              ListIndex(b) < ListIndex(browser_count)
                  => browser_counts[b] < browser_counts[browser_count]
        /\ (\A b \in BrowserNames : browser_counts[b] = 0) => browser_count = Firefox

\* Safari was counted before Chrome, both once: the tie goes to Chrome
C2_Witness ==
    /\ pc = "print"
    /\ Len(records) = 2
    /\ browser_search(records[1]["browser"]) = Safari
    /\ browser_counts[Chrome] = 1
    /\ browser_counts[Safari] = 1
    /\ browser_count = Chrome

\* C9: the tallies start at zero; at every point of the scan their sum is the
\* number of scanned records whose browser field contains a recognized
\* identifier; an iteration on such a record adds one to exactly one tally and
\* an iteration on any other record changes no tally.
C9_TallySum ==
    /\ []("find_most_used_browser" \in calls =>
            /\ (idx = 1 => browser_counts = zero_counts)
            /\ SumOver(browser_counts, BrowserNames) =
                  Cardinality({i \in 1..(idx - 1) : RecognizedIn(records[i]["browser"]) # {}}))
    /\ [][BrowserIterated =>
            IF RecognizedIn(records[idx]["browser"]) # {}
            THEN \E b \in BrowserNames : browser_counts' = Increment(browser_counts, b)
            ELSE browser_counts' = browser_counts]_vars

\* a record without identifier and a record with two have been scanned
C9_Witness ==
    /\ pc = "print"
    /\ Len(records) = 2
    /\ RecognizedIn(records[1]["browser"]) = {}
    /\ Cardinality(RecognizedIn(records[2]["browser"])) = 2
    /\ SumOver(browser_counts, BrowserNames) = 1

\* ---------------------------------------------------------------- main: claims

\* C3 as stated: a record without the inspected field is a non-match, and
\* count_images and find_most_used_browser complete instead of raising: no
\* run ends in the KeyError of a missing "path" or "browser".
C3_AbsentFieldIsNonMatch == ~(pc = "raised" /\ err = "KeyError")

\* C4 as stated: main skips the percentage when there is no record:
\* find_image_percentage is never entered with rows_total = 0.
C4_TotalChecked == ~("find_image_percentage" \in calls /\ total_rows = 0)

\* C5: download_data is called exactly once; once it has failed the run is
\* over with exit status 1, no analysis function has run and nothing is
\* reported.
C5_FetchFailureAborts ==
    /\ downloads <= 1
    /\ pc # "download" => downloads = 1
    /\ download_failed =>
          /\ pc = "exit"
          /\ exit_code = 1
          /\ calls = {}
          /\ ~printed

\* the download has failed
C5_Witness == download_failed /\ pc = "exit" /\ downloads = 1

\* ---------------------------------------------------------------- count_images: claims

\* s ends with a dot and one of the extensions, ignoring case, and nothing after
EndsWithImageExtension(s) ==
    \E e \in 1..Len(image_extensions) :
        LET ext == image_extensions[e]
            n == Len(ext)
        IN  /\ Len(s) >= n + 1
            /\ s[Len(s) - n] = "."
            /\ \A k \in 1..n : Fold(s[Len(s) - n + k]) = Fold(ext[k])

\* C6 as stated: count_images returns the number of records whose path ends
\* with a dot and jpg, gif or png, ignoring case, with nothing after the
\* extension.
C6_EndAnchored ==
    pc = "find_image_percentage" =>
        image_count = Cardinality({i \in 1..Len(records) :
                                      EndsWithImageExtension(records[i]["path"])})

\* ---------------------------------------------------------------- read_csv: claims

RECURSIVE Split(_, _)
\* str.split(sep) for a one-character sep
Split(s, sep) ==
    IF \A p \in 1..Len(s) : s[p] # sep THEN <<s>>
    ELSE LET p == SetMin({q \in 1..Len(s) : s[q] = sep})
         IN  <<SubSeq(s, 1, p - 1)>> \o Split(SubSeq(s, p + 1, Len(s)), sep)

\* the lines of the text: the pieces between newlines, without the empty piece
\* after a final newline
Lines(text) ==
    LET pieces == Split(text, "\n")
    IN  IF pieces[Len(pieces)] = <<>> THEN SubSeq(pieces, 1, Len(pieces) - 1) ELSE pieces

\* the number of lines left once the empty lines at the end are dropped
NonTrailingEmptyLines(text) ==
    LET ls == Lines(text)
        filled == {i \in 1..Len(ls) : ls[i] # <<>>}
    IN  IF filled = {} THEN 0 ELSE CHOOSE i \in filled : \A j \in filled : j <= i

\* no quote and no carriage return: plain comma-separated lines
Plain(text) == \A p \in 1..Len(text) : text[p] \notin {quotechar, "\r"}

\* C7: each row of n fields becomes a record with exactly the first min(n, 5)
\* column names, each mapped to the field at its position; further fields are
\* dropped and further names are absent.  A row is what the reader makes of a
\* line, which for a plain line is its split at the commas.
C7_PositionalPairs ==
    pc = "count_images" =>
        LET rows == csv_reader(weblog_data).rows
            ls == Lines(weblog_data)
        IN  /\ Len(records) = Len(rows)
            /\ \A i \in 1..Len(rows) :
                  LET m == Min(Len(rows[i]), Len(column_names))
                  IN  /\ DOMAIN records[i] = {column_names[j] : j \in 1..m}
                      /\ \A j \in 1..m : records[i][column_names[j]] = rows[i][j]
            /\ Plain(weblog_data) =>
                  rows = [i \in 1..Len(ls) |->
                            IF ls[i] = <<>> THEN <<>> ELSE Split(ls[i], delimiter)]

\* a line of six fields has been parsed: five names kept, the sixth field dropped
C7_Witness ==
    /\ pc = "count_images"
    /\ Len(records) = 1
    /\ Len(csv_reader(weblog_data).rows[1]) = 6
    /\ DOMAIN records[1] = {column_names[j] : j \in 1..Len(column_names)}
    /\ records[1]["path"] = <<"a">>

\* C8 as stated: read_csv returns as many records as the text has lines once
\* its empty trailing lines are dropped.
C8_OneRecordPerLine ==
    pc = "count_images" => Len(records) = NonTrailingEmptyLines(weblog_data)

\* ---------------------------------------------------------------- partial rows: claims

\* the rows the reader made of the downloaded text
Rows == csv_reader(weblog_data).rows

ImagesCounted ==
    pc \in {"find_image_percentage", "find_most_used_browser", "browser_loop", "print", "done"}
    \/ (pc = "raised" /\ "find_image_percentage" \in calls)

\* the records the running or finished loop of count_images has classified
ImagesScanned ==
    IF ImagesCounted THEN 1..Len(records)
    ELSE IF "count_images" \in calls THEN 1..(idx - 1)
    ELSE {}

\* the records the running or finished loop of find_most_used_browser has classified
BrowsersScanned ==
    IF pc \in {"print", "done"} THEN 1..Len(records)
    ELSE IF "find_most_used_browser" \in calls THEN 1..(idx - 1)
    ELSE {}

\* C10: a row of three fields becomes a record with path, datetime_accessed
\* and browser and without request and size; a KeyError is never raised on a
\* record of three fields or more; and the count and the tallies are those of
\* the first and third field of each classified row, whether the row has
\* three fields or five.
C10_ThreeFieldRows ==
    "read_csv" \in calls /\ err # "csv.Error" =>
        /\ \A i \in 1..Len(Rows) :
              Len(Rows[i]) = 3 => DOMAIN records[i] = {"path", "datetime_accessed", "browser"}
        /\ err = "KeyError" => Len(Rows[idx]) < 3
        /\ image_count = Cardinality({i \in ImagesScanned : image_search(Rows[i][1])})
        /\ \A b \in DOMAIN browser_counts :
              browser_counts[b] =
                  Cardinality({i \in BrowsersScanned : browser_search(Rows[i][3]) = b})

\* a three-field row and a five-field row with the same path and browser went
\* through both loops and were classified alike
C10_Witness ==
    /\ pc = "done"
    /\ Len(Rows) = 2
    /\ Len(Rows[1]) = 3
    /\ Len(Rows[2]) = 5
    /\ Rows[1][1] = Rows[2][1]
    /\ Rows[1][3] = Rows[2][3]
    /\ image_count = 2
    /\ browser_counts[Chrome] = 2

====
